---- MODULE Spec2Model ----
(***************************************************************************)
(* Freezer monitor (freezerMonitor.ino): the door-open watchdog, the       *)
(* temperature guard and the periodic logger, run one after the other by   *)
(* loop(), and the formatting of the open duration in the door alert.      *)
(*                                                                         *)
(* Time.  millis() is an unsigned long (32 bits) counting milliseconds.    *)
(* The timing model observes it with a resolution of 8 ms: one unit of     *)
(* clock, of every timestamp and of every interval below is 8 ms.  8       *)
(* divides second (1000), minute (60000), all four configured intervals    *)
(* and 2^32, so every comparison of the sketch is exact at this            *)
(* resolution and the counter rolls over at 2^32 / 8 = 2^29 units.         *)
(* The duration text is modelled separately in milliseconds (FormatSpec).  *)
(***************************************************************************)
EXTENDS Integers, Sequences, FiniteSets, TLC

VARIABLES
    doorClosed,           \* bool doorClosed
    prevDoorClosed,       \* bool prevDoorClosed
    openTime,             \* unsigned long openTime
    openDuration,         \* unsigned long openDuration
    doorAlertLastSent,    \* unsigned long doorAlertLastSent
    sentDoorAlert,        \* bool sentDoorAlert
    dataLastLogged,       \* unsigned long dataLastLogged
    tempDataLastAlerted,  \* unsigned long tempDataLastAlerted
    clock,                \* millis() now, between two functions of the sketch
    pc,                   \* the function the sketch runs next
    loops,                \* number of loop() iterations started
    call,                 \* what the latest function run read and dispatched
    rolled,               \* history: millis() has rolled over since startup
    doorAge,              \* history: time since the last door alert returned
    tempAge,              \* history: time since the last temperature alert
    gateAge,              \* history: time since line 208 last ran
    logAge,               \* history: time since the last PutItem returned
    openAge,              \* history: time since openTime was recorded
    alertedSince,         \* history: a door alert since the last transition
    fmtIn,                \* FormatSpec: the open duration in milliseconds
    fmtInt,               \* FormatSpec: width of int on the build target
    fmtOut,               \* FormatSpec: the formatted duration
    tsPc,                 \* TimestampSpec: position in createTimestamp()
    tsNow,                \* TimestampSpec: millis() now, in milliseconds
    tsEntry,              \* TimestampSpec: currentTime of createTimestamp()
    retryTimer,           \* TimestampSpec: unsigned long retryTimer
    tsPolls,              \* TimestampSpec: date.available() polls so far
    tsLate,               \* TimestampSpec: history, see LatePoll
    tsResult              \* TimestampSpec: the String returned

progVars == <<doorClosed, prevDoorClosed, openTime, openDuration,
              doorAlertLastSent, sentDoorAlert, dataLastLogged,
              tempDataLastAlerted>>
histVars == <<rolled, doorAge, tempAge, gateAge, logAge, openAge,
             alertedSince>>
fmtVars  == <<fmtIn, fmtInt, fmtOut>>
tsVars   == <<tsPc, tsNow, tsEntry, retryTimer, tsPolls, tsLate, tsResult>>
vars     == <<progVars, clock, pc, loops, call, histVars, fmtVars, tsVars>>

---------------------------------------------------------------------------
(* Program constants.  minute and second are in milliseconds; the range of *)
(* unsigned long and the four intervals are in units of 8 ms.              *)

minute         == 60000
second         == 1000
ULongMod       == 2^29                 \* 2^32 ms: range of unsigned long
openTooLong    == 180000 \div 8
doorAlertDelay == 180000 \div 8
rateToLogData  == 3600000 \div 8
tempAlertDelay == 1800000 \div 8
maxTempC       == -15
minTempC       == -19

(* Bounds of the model.                                                    *)

MaxLoops == 3                          \* loop() iterations explored

(* Inputs.  Delta: time that passes before a function reads millis() for   *)
(* its currentTime; the large value brings the counter to its rollover.    *)
(* Jitter: time between the two millis() reads of checkDoor on the tick    *)
(* that sees the door open.  ReadTime: time readTemperature() takes.       *)
(* SendTime: time a Choreo run (SendSMS, PutItem) blocks.                  *)
(* BootTime: millis() at the end of setup().  Temps: readTemperature().    *)
Delta    == {0, doorAlertDelay - 1, tempAlertDelay, rateToLogData - 1,
             ULongMod - tempAlertDelay}
Jitter   == {0, 1}
ReadTime == {1}
SendTime == {second \div 8}
BootTime == {(3 * second) \div 8}
Temps    == {-20, -19, -17, -15, -10}

---------------------------------------------------------------------------
(* unsigned long arithmetic and the clock                                  *)

Millis(c, dt) == (c + dt) % ULongMod

(* Mutation: the difference taken as a signed value, negative clamped.     *)
Sub32_signed(a, b) == IF a >= b THEN a - b ELSE 0

Sub32(a, b) == ((a - b) + ULongMod) % ULongMod

Min(a, b) == IF a < b THEN a ELSE b

(* A history timer: -1 is "never"; it stops counting at ULongMod.          *)
Age(a, dt) == IF a < 0 THEN a ELSE Min(a + dt, ULongMod)

Rolled(c, dt) == c + dt >= ULongMod

NoCall == [fn |-> "none", currentTime |-> 0, reading |-> FALSE,
           transition |-> FALSE, tempC |-> 0, gate |-> FALSE,
           sent |-> <<>>, gap |-> -1, openFor |-> -1, uptime |-> 0]

(* True time since startup at a millis() read: the counter itself until    *)
(* its first rollover.                                                     *)
Uptime(c, dt) == IF rolled \/ c + dt >= ULongMod THEN ULongMod ELSE c + dt

NoResult == [placeholder |-> FALSE, text |-> <<>>]

(* createTimestamp() is not running.                                       *)
TsIdle ==
    /\ tsPc = "idle"
    /\ tsNow = 0
    /\ tsEntry = 0
    /\ retryTimer = 0
    /\ tsPolls = 0
    /\ tsLate = 0
    /\ tsResult = NoResult

NoText == [text |-> "", secondsOpen |-> 0, minutesOpen |-> 0, done |-> FALSE]

---------------------------------------------------------------------------
(* Globals before setup() runs: statics are zero-initialised.              *)
Init ==
    /\ doorClosed = FALSE
    /\ prevDoorClosed = FALSE
    /\ openTime = 0
    /\ openDuration = 0
    /\ doorAlertLastSent = 0
    /\ sentDoorAlert = FALSE
    /\ dataLastLogged = 0
    /\ tempDataLastAlerted = 0
    /\ clock = 0
    /\ pc = "setup"
    /\ loops = 0
    /\ call = NoCall
    /\ rolled = FALSE
    /\ doorAge = -1
    /\ tempAge = -1
    /\ gateAge = -1
    /\ logAge = -1
    /\ openAge = -1
    /\ alertedSince = FALSE
    /\ fmtIn = 0
    /\ fmtInt = 16
    /\ fmtOut = NoText
    /\ TsIdle

(* setup(): "doorClosed, prevDoorClosed = digitalRead(doorPin)" is a comma *)
(* expression; only prevDoorClosed is assigned.                            *)
setup ==
    /\ pc = "setup"
    /\ \E pin \in BOOLEAN, boot \in BootTime :
          /\ prevDoorClosed' = pin
          /\ clock' = Millis(clock, boot)
          /\ call' = [NoCall EXCEPT !.fn = "setup", !.reading = pin,
                                    !.currentTime = Millis(clock, boot),
                                    !.uptime = Uptime(clock, boot)]
    /\ tempDataLastAlerted' = tempAlertDelay
    /\ dataLastLogged' = rateToLogData
    /\ pc' = "checkDoor"
    /\ UNCHANGED <<doorClosed, openTime, openDuration, doorAlertLastSent,
                   sentDoorAlert, loops, histVars, fmtVars, tsVars>>

---------------------------------------------------------------------------
(* sendAlert(message): one SendSMS Choreo run; ok is the outcome of        *)
(* SendSMSChoreo.run(), which sendAlert does not return.                   *)
SendAlert(kind, arg, ok) == <<[kind |-> kind, arg |-> arg, ok |-> ok]>>

---------------------------------------------------------------------------
(* checkDoor()                                                             *)

(* Mutation: only the opening of the door is seen as a change.             *)
DoorChanged_openOnly(reading, prev) == reading # prev /\ ~reading

(* Mutation: only the closing of the door counts as a change.              *)
DoorChanged_closeOnly(reading, prev) == reading /\ ~prev

DoorChanged(reading, prev) == reading # prev

(* Mutation: the threshold itself already counts as too long.              *)
OpenedTooLong_ge(od) == od >= openTooLong

(* Mutation: half of openTooLong is enough for an alert.                   *)
OpenedTooLong_early(od) == od > openTooLong \div 2

OpenedTooLong(od) == od > openTooLong

(* Mutation: the cooldown between door alerts is not applied.              *)
DoorAlertDue_always(sent, ct, last) == TRUE

DoorAlertDue(sent, ct, last) ==
    ~sent \/ Sub32(ct, last) >= doorAlertDelay

(* Mutation: the open time is accumulated instead of recomputed.           *)
OpenFor_accumulated(ct, ot) == Millis(openDuration, Sub32(ct, ot))

(* Line 159: openDuration = currentTime - openTime.                        *)
OpenFor(ct, ot) == Sub32(ct, ot)

(* The body of checkDoor for a pin reading taken at currentTime ct; j and  *)
(* s are the times that pass before the later millis() reads.  The result  *)
(* holds the new values of the globals, the alerts dispatched and the time *)
(* that passed after ct.  ok is the outcome of SendSMSChoreo.run().        *)
DoorStep(pin, ct, j, s, ok) ==
    LET same == [sentDoorAlert |-> sentDoorAlert,
                 prevDoorClosed |-> prevDoorClosed,
                 openTime |-> openTime,
                 openDuration |-> openDuration,
                 doorAlertLastSent |-> doorAlertLastSent,
                 sent |-> <<>>, extra |-> 0]
    IN  IF DoorChanged(pin, prevDoorClosed)
        THEN IF ~pin
             THEN [same EXCEPT !.sentDoorAlert = FALSE,
                               !.prevDoorClosed = pin,
                               !.openTime = Millis(ct, j),
                               !.openDuration = 0,
                               !.extra = j]
             ELSE [same EXCEPT !.sentDoorAlert = FALSE,
                               !.prevDoorClosed = pin]
        ELSE IF ~pin
             THEN LET od == OpenFor(ct, openTime)
                  IN  IF OpenedTooLong(od)
                      THEN IF DoorAlertDue(sentDoorAlert, ct, doorAlertLastSent)
                           THEN [same EXCEPT
                                   !.openDuration = od,
                                   !.sent = SendAlert("door", od, ok),
                                   !.doorAlertLastSent = Millis(ct, s),
                                   !.sentDoorAlert = TRUE,
                                   !.extra = s]
                           ELSE [same EXCEPT !.openDuration = od]
                      ELSE [same EXCEPT !.openDuration = od]
             ELSE same

checkDoor ==
    /\ pc = "checkDoor"
    /\ loops < MaxLoops
    /\ \E dt \in Delta, pin \in BOOLEAN, j \in Jitter, s \in SendTime,
          ok \in BOOLEAN :
          LET ct == Millis(clock, dt)
              r  == DoorStep(pin, ct, j, s, ok)
              changed == DoorChanged(pin, prevDoorClosed)
              total == dt + r.extra
          IN  /\ doorClosed' = pin
              /\ sentDoorAlert' = r.sentDoorAlert
              /\ prevDoorClosed' = r.prevDoorClosed
              /\ openTime' = r.openTime
              /\ openDuration' = r.openDuration
              /\ doorAlertLastSent' = r.doorAlertLastSent
              /\ clock' = Millis(ct, r.extra)
              /\ rolled' = (rolled \/ Rolled(clock, total))
              /\ call' = [NoCall EXCEPT
                            !.fn = "checkDoor", !.currentTime = ct,
                            !.reading = pin, !.transition = changed,
                            !.sent = r.sent,
                            !.gap = IF r.sent # <<>> THEN Age(doorAge, dt)
                                    ELSE -1,
                            !.openFor = Age(openAge, dt),
                            !.uptime = Uptime(clock, dt)]
              /\ doorAge' = IF pin THEN -1
                            ELSE IF r.sent # <<>> THEN 0
                            ELSE Age(doorAge, total)
              /\ openAge' = IF pin THEN -1
                            ELSE IF changed THEN 0
                            ELSE Age(openAge, total)
              /\ alertedSince' = IF changed THEN FALSE
                                 ELSE IF r.sent # <<>> THEN TRUE
                                 ELSE alertedSince
              /\ tempAge' = Age(tempAge, total)
              /\ gateAge' = Age(gateAge, total)
              /\ logAge' = Age(logAge, total)
    /\ loops' = loops + 1
    /\ pc' = "checkTemperature"
    /\ UNCHANGED <<dataLastLogged, tempDataLastAlerted, fmtVars, tsVars>>

---------------------------------------------------------------------------
(* checkTemperature()                                                      *)

(* Mutation: the cooldown between temperature checks is not applied.       *)
TempCheckDue_always(ct, last) == TRUE

(* Mutation: the cooldown is twice tempAlertDelay.                         *)
TempCheckDue_late(ct, last) == Sub32(ct, last) >= 2 * tempAlertDelay

TempCheckDue(ct, last) == Sub32(ct, last) >= tempAlertDelay

(* Mutation: the thresholds themselves count as out of range.              *)
TempAlert_inclusive(tempC, ok) ==
    IF tempC >= maxTempC THEN <<[kind |-> "over", arg |-> tempC, ok |-> ok]>>
    ELSE IF tempC <= minTempC THEN <<[kind |-> "under", arg |-> tempC, ok |-> ok]>>
    ELSE <<>>

(* The alert the comparison of lines 203-207 selects.                      *)
TempAlert(tempC, ok) ==
    IF tempC > maxTempC THEN SendAlert("over", tempC, ok)
    ELSE IF tempC < minTempC THEN SendAlert("under", tempC, ok)
    ELSE <<>>

(* Mutation: the timestamp is refreshed only when an alert was sent.       *)
TempStep_onAlert(tempC, ct, rt, s, ok) ==
    IF TempCheckDue(ct, tempDataLastAlerted)
    THEN LET a == TempAlert(tempC, ok)
             x == IF a # <<>> THEN rt + s ELSE rt
         IN  [gate |-> TRUE, sent |-> a,
              tempDataLastAlerted |-> IF a # <<>> THEN Millis(ct, x)
                                      ELSE tempDataLastAlerted,
              extra |-> x]
    ELSE [gate |-> FALSE, sent |-> <<>>,
          tempDataLastAlerted |-> tempDataLastAlerted, extra |-> rt]

(* The body of checkTemperature for currentTime ct: readTemperature()      *)
(* takes rt, a dispatched alert blocks for s, and line 208 reads millis()  *)
(* after both.  extra is the time that passed after ct.                    *)
TempStep(tempC, ct, rt, s, ok) ==
    IF TempCheckDue(ct, tempDataLastAlerted)
    THEN LET a == TempAlert(tempC, ok)
             x == IF a # <<>> THEN rt + s ELSE rt
         IN  [gate |-> TRUE, sent |-> a,
              tempDataLastAlerted |-> Millis(ct, x), extra |-> x]
    ELSE [gate |-> FALSE, sent |-> <<>>,
          tempDataLastAlerted |-> tempDataLastAlerted, extra |-> rt]

checkTemperature ==
    /\ pc = "checkTemperature"
    /\ \E tempC \in Temps, rt \in ReadTime, s \in SendTime, ok \in BOOLEAN :
          LET ct == clock
              r  == TempStep(tempC, ct, rt, s, ok)
          IN  /\ tempDataLastAlerted' = r.tempDataLastAlerted
              /\ clock' = Millis(ct, r.extra)
              /\ rolled' = (rolled \/ Rolled(clock, r.extra))
              /\ call' = [NoCall EXCEPT
                            !.fn = "checkTemperature", !.currentTime = ct,
                            !.tempC = tempC, !.gate = r.gate,
                            !.sent = r.sent,
                            !.gap = IF r.sent # <<>> THEN tempAge ELSE -1,
                            !.uptime = Uptime(clock, 0)]
              /\ tempAge' = IF r.sent # <<>> THEN 0
                            ELSE Age(tempAge, r.extra)
              /\ gateAge' = IF r.gate THEN 0 ELSE Age(gateAge, r.extra)
              /\ doorAge' = Age(doorAge, r.extra)
              /\ openAge' = Age(openAge, r.extra)
              /\ logAge' = Age(logAge, r.extra)
    /\ pc' = "logData"
    /\ UNCHANGED <<doorClosed, prevDoorClosed, openTime, openDuration,
                   doorAlertLastSent, sentDoorAlert, dataLastLogged,
                   loops, alertedSince, fmtVars, tsVars>>

---------------------------------------------------------------------------
(* logData()                                                               *)

(* Mutation: the log interval is not applied.                              *)
LogDue_always(ct, last) == TRUE

(* Mutation: a record is logged after half the interval.                   *)
LogDue_half(ct, last) == Sub32(ct, last) >= rateToLogData \div 2

LogDue(ct, last) == Sub32(ct, last) >= rateToLogData

(* Mutation: the timestamp is refreshed only when PutItem succeeded.       *)
LogStep_checked(ct, s, ok) ==
    IF LogDue(ct, dataLastLogged)
    THEN [gate |-> TRUE,
          sent |-> <<[kind |-> "PutItem", arg |-> doorClosed, ok |-> ok]>>,
          dataLastLogged |-> IF ok THEN Millis(ct, s) ELSE dataLastLogged,
          extra |-> s]
    ELSE [gate |-> FALSE, sent |-> <<>>,
          dataLastLogged |-> dataLastLogged, extra |-> 0]

(* The body of logData for currentTime ct: PutItemChoreo.run() blocks for  *)
(* s and ends with outcome ok, which the sketch does not look at.          *)
LogStep(ct, s, ok) ==
    IF LogDue(ct, dataLastLogged)
    THEN [gate |-> TRUE,
          sent |-> <<[kind |-> "PutItem", arg |-> doorClosed, ok |-> ok]>>,
          dataLastLogged |-> Millis(ct, s), extra |-> s]
    ELSE [gate |-> FALSE, sent |-> <<>>,
          dataLastLogged |-> dataLastLogged, extra |-> 0]

logData ==
    /\ pc = "logData"
    /\ \E s \in SendTime, ok \in BOOLEAN :
          LET ct == clock
              r  == LogStep(ct, s, ok)
              total == r.extra
          IN  /\ dataLastLogged' = r.dataLastLogged
              /\ clock' = Millis(ct, r.extra)
              /\ rolled' = (rolled \/ Rolled(clock, total))
              /\ call' = [NoCall EXCEPT
                            !.fn = "logData", !.currentTime = ct,
                            !.gate = r.gate,
                            !.sent = r.sent,
                            !.gap = IF r.sent # <<>> THEN logAge
                                    ELSE -1,
                            !.uptime = Uptime(clock, 0)]
              /\ logAge' = IF r.sent # <<>> THEN 0 ELSE Age(logAge, total)
              /\ doorAge' = Age(doorAge, total)
              /\ openAge' = Age(openAge, total)
              /\ tempAge' = Age(tempAge, total)
              /\ gateAge' = Age(gateAge, total)
    /\ pc' = "checkDoor"
    /\ UNCHANGED <<doorClosed, prevDoorClosed, openTime, openDuration,
                   doorAlertLastSent, sentDoorAlert, tempDataLastAlerted,
                   loops, alertedSince, fmtVars, tsVars>>

---------------------------------------------------------------------------
(* The duration text of the door alert (checkDoor, lines 168-182), in      *)
(* milliseconds.  secondsOpen and minutesOpen are of type int: 16 bits on  *)
(* the AVR boards that carry the Bridge library, 32 bits on the ARM ones.  *)

IntBits == {16, 32}

(* Conversion of a non-negative value below 2^31 to int.                   *)
ToInt(v, bits) ==
    IF bits = 16 THEN ((v + 32768) % 65536) - 32768 ELSE v

DurationText(d, bits) ==
    IF d > minute
    THEN LET secondsOpen == ToInt((d % minute) \div second, bits)
             minutesOpen == ToInt((d - secondsOpen) \div minute, bits)
         IN  [text |-> IF secondsOpen = 0
                       THEN ToString(minutesOpen) \o " min"
                       ELSE ToString(minutesOpen) \o " min and "
                              \o ToString(secondsOpen) \o " sec",
              secondsOpen |-> secondsOpen, minutesOpen |-> minutesOpen,
              done |-> TRUE]
    ELSE IF d = minute
    THEN [NoText EXCEPT !.text = "1 min", !.done = TRUE]
    ELSE [NoText EXCEPT !.text = ToString(d \div second) \o " sec",
                        !.done = TRUE]

(* Open durations the text is computed for: whole minutes up to the        *)
(* largest that fit 31 bits, with seconds and a millisecond remainder.     *)
Durations ==
    { m * minute + sec * second + ms :
        m \in {0, 1, 2, 3, 59, 60, 32767, 32768, 35790},
        sec \in {0, 5, 45, 59}, ms \in {0, 1, 999} }

InitFormat ==
    /\ doorClosed = FALSE
    /\ prevDoorClosed = FALSE
    /\ openTime = 0
    /\ openDuration = 0
    /\ doorAlertLastSent = 0
    /\ sentDoorAlert = FALSE
    /\ dataLastLogged = 0
    /\ tempDataLastAlerted = 0
    /\ clock = 0
    /\ pc = "format"
    /\ loops = 0
    /\ call = NoCall
    /\ rolled = FALSE
    /\ doorAge = -1
    /\ tempAge = -1
    /\ gateAge = -1
    /\ logAge = -1
    /\ openAge = -1
    /\ alertedSince = FALSE
    /\ fmtIn \in Durations
    /\ fmtInt \in IntBits
    /\ fmtOut = NoText
    /\ TsIdle

formatDuration ==
    /\ pc = "format"
    /\ ~fmtOut.done
    /\ fmtOut' = DurationText(fmtIn, fmtInt)
    /\ UNCHANGED <<progVars, clock, pc, loops, call, histVars, fmtIn, fmtInt,
                   tsVars>>

NextFormat == formatDuration

FormatSpec == InitFormat /\ [][NextFormat]_vars

---------------------------------------------------------------------------
(* createTimestamp(), in milliseconds.  The counter does not roll over     *)
(* here: the function runs for a second or two.                            *)

Placeholder == "MM-DD-YYYY HH:MM:SS"

(* What the date process prints, as characters: a text and a newline.      *)
DateOutput == <<"1", "1", "-", "0", "5", " ", "1", "3", "\n">>

IsSpace(c) == c \in {" ", "\n", "\t", "\r"}

(* String::trim(): whitespace removed at both ends.                        *)
RECURSIVE TrimLeft(_)
TrimLeft(str) ==
    IF str # <<>> /\ IsSpace(Head(str)) THEN TrimLeft(Tail(str)) ELSE str

RECURSIVE TrimRight(_)
TrimRight(str) ==
    IF str # <<>> /\ IsSpace(str[Len(str)])
    THEN TrimRight(SubSeq(str, 1, Len(str) - 1)) ELSE str

Trim(str) == TrimRight(TrimLeft(str))

(* Inputs.  TsStart: millis() when createTimestamp is entered.  RunTime:   *)
(* time date.run() blocks (0: the process was still running and is not     *)
(* started again).  DelayTime: time delay(30) takes.                       *)
TsStart   == {5000}
RunTime   == {0, 100, 1200}
DelayTime == {30, 31}

(* Line 303: retryTimer < second.                                          *)
KeepWaiting(timer) == timer < second

(* The main sketch parked while one of its functions is examined alone.    *)
Parked(where) ==
    /\ doorClosed = FALSE
    /\ prevDoorClosed = FALSE
    /\ openTime = 0
    /\ openDuration = 0
    /\ doorAlertLastSent = 0
    /\ sentDoorAlert = FALSE
    /\ dataLastLogged = 0
    /\ tempDataLastAlerted = 0
    /\ clock = 0
    /\ pc = where
    /\ loops = 0
    /\ call = NoCall
    /\ rolled = FALSE
    /\ doorAge = -1
    /\ tempAge = -1
    /\ gateAge = -1
    /\ logAge = -1
    /\ openAge = -1
    /\ alertedSince = FALSE

InitTimestamp ==
    /\ Parked("createTimestamp")
    /\ fmtIn = 0
    /\ fmtInt = 16
    /\ fmtOut = NoText
    /\ tsPc = "entry"
    /\ tsNow \in TsStart
    /\ tsEntry = 0
    /\ retryTimer = 0
    /\ tsPolls = 0
    /\ tsLate = 0
    /\ tsResult = NoResult

(* Lines 292-299: currentTime, retryTimer, and the date process started.   *)
tsEnter ==
    /\ tsPc = "entry"
    /\ \E run \in RunTime :
          /\ tsEntry' = tsNow
          /\ tsNow' = tsNow + run
    /\ retryTimer' = 0
    /\ tsPc' = "poll"
    /\ UNCHANGED <<progVars, clock, pc, loops, call, histVars, fmtVars,
                   tsPolls, tsLate, tsResult>>

(* A poll that finds nothing although a second has passed since entry and  *)
(* still goes on waiting.                                                  *)
LatePoll(avail) ==
    ~avail /\ tsNow - tsEntry >= second /\ KeepWaiting(retryTimer)

(* Lines 302-318: one test of date.available() and what follows it.        *)
tsPoll ==
    /\ tsPc = "poll"
    /\ \E avail \in BOOLEAN, d \in DelayTime :
          /\ tsLate' = tsLate + (IF LatePoll(avail) THEN 1 ELSE 0)
          /\ IF avail
             THEN /\ tsResult' = [placeholder |-> FALSE,
                                  text |-> Trim(DateOutput)]
                  /\ tsPc' = "done"
                  /\ UNCHANGED <<tsNow, retryTimer>>
             ELSE IF KeepWaiting(retryTimer)
             THEN /\ tsNow' = tsNow + d
                  /\ retryTimer' = (tsNow + d) - tsEntry
                  /\ UNCHANGED <<tsPc, tsResult>>
             ELSE /\ tsResult' = [placeholder |-> TRUE, text |-> Placeholder]
                  /\ tsPc' = "done"
                  /\ UNCHANGED <<tsNow, retryTimer>>
    /\ tsPolls' = tsPolls + 1
    /\ UNCHANGED <<progVars, clock, pc, loops, call, histVars, fmtVars,
                   tsEntry>>

NextTimestamp == tsEnter \/ tsPoll

TimestampSpec == InitTimestamp /\ [][NextTimestamp]_vars

---------------------------------------------------------------------------
Next == setup \/ checkDoor \/ checkTemperature \/ logData

Spec == Init /\ [][Next]_vars

---------------------------------------------------------------------------
(* Properties.  Sent(f): the latest function run was f and dispatched.     *)

Sent(f) == call.fn = f /\ call.sent # <<>>

(* C1: while every checkDoor tick reads the door open, a door alert is     *)
(* sent no sooner than doorAlertDelay after the previous door alert        *)
(* returned: at most one door alert per doorAlertDelay window.             *)
C1_DoorAlertSpacing ==
    (Sent("checkDoor") /\ call.gap >= 0) => call.gap >= doorAlertDelay

C1_Witness == Sent("checkDoor") /\ call.gap = doorAlertDelay

(* C2: a checkDoor tick sends a door alert if and only if the reading      *)
(* equals the previous reading, the door is open, currentTime - openTime   *)
(* exceeds openTooLong, and sentDoorAlert is false or currentTime -        *)
(* doorAlertLastSent >= doorAlertDelay; never on a closed reading or on a  *)
(* transition tick.                                                        *)
C2_DoorAlertIff ==
    [][pc = "checkDoor" =>
         LET now == call'.currentTime
             pin == call'.reading
         IN  /\ (call'.sent # <<>>) <=>
                    /\ pin = prevDoorClosed
                    /\ ~pin
                    /\ Sub32(now, openTime) > openTooLong
                    /\ \/ ~sentDoorAlert
                       \/ Sub32(now, doorAlertLastSent) >= doorAlertDelay
             /\ (pin \/ pin # prevDoorClosed) => call'.sent = <<>>
             /\ Len(call'.sent) <= 1]_vars

C2_Witness ==
    /\ Sent("checkDoor") /\ call.gap = -1
    /\ call.sent[1].kind = "door" /\ call.sent[1].arg > openTooLong

(* C3: sentDoorAlert is false after every transition tick (closed to open  *)
(* and open to closed), becomes true only on a tick that sends a door      *)
(* alert, never falls without a transition, no other function changes it,  *)
(* and after every checkDoor call it is true exactly when a door alert     *)
(* has been sent since the latest detected transition.                     *)
C3_SentFlag ==
    [][/\ pc = "checkDoor" =>
            LET transition == call'.reading # prevDoorClosed
            IN  /\ transition => ~sentDoorAlert'
                /\ (~sentDoorAlert /\ sentDoorAlert') => call'.sent # <<>>
                /\ (sentDoorAlert /\ ~sentDoorAlert') => transition
                /\ sentDoorAlert' <=> alertedSince'
       /\ pc # "checkDoor" => sentDoorAlert' = sentDoorAlert]_vars

C3_Witness ==
    /\ call.fn = "checkDoor" /\ call.transition /\ call.reading
    /\ ~sentDoorAlert /\ doorAlertLastSent > 0

ExpectedText(d) ==
    LET M == d \div 60000
        S == (d % 60000) \div 1000
    IN  IF d >= 60000
        THEN IF S = 0 THEN ToString(M) \o " min"
             ELSE ToString(M) \o " min and " \o ToString(S) \o " sec"
        ELSE ToString(d \div 1000) \o " sec"

C5_DurationText ==
    fmtOut.done =>
        /\ fmtOut.text = ExpectedText(fmtIn)
        /\ fmtIn > minute => fmtOut.minutesOpen = fmtIn \div 60000

(* C6: on a checkTemperature tick whose cooldown gate is entered, exactly  *)
(* one over-temperature alert is sent above maxTempC, exactly one          *)
(* under-temperature alert below minTempC, none within the band; on a      *)
(* tick whose gate is not entered none is sent; never more than one.       *)
C6_TempAlertChoice ==
    [][pc = "checkTemperature" =>
         LET gate == Sub32(call'.currentTime, tempDataLastAlerted)
                         >= tempAlertDelay
             t == call'.tempC
             out == call'.sent
         IN  /\ (gate /\ t > maxTempC) =>
                    (Len(out) = 1 /\ out[1].kind = "over")
             /\ (gate /\ t < minTempC) =>
                    (Len(out) = 1 /\ out[1].kind = "under")
             /\ (gate /\ t >= minTempC /\ t <= maxTempC) => out = <<>>
             /\ ~gate => out = <<>>
             /\ Len(out) <= 1]_vars

C6_Witness ==
    /\ call.fn = "checkTemperature" /\ call.gate
    /\ call.tempC = maxTempC /\ call.sent = <<>>

(* C7: a temperature alert (over or under) is sent no sooner than          *)
(* tempAlertDelay after the previous temperature alert returned.           *)
C7_TempAlertSpacing ==
    (Sent("checkTemperature") /\ call.gap >= 0) => call.gap >= tempAlertDelay

C7_Witness == Sent("checkTemperature") /\ call.gap = tempAlertDelay

C9_LogSpacing ==
    [][pc = "logData" =>
         LET due == Sub32(call'.currentTime, dataLastLogged) >= rateToLogData
         IN  /\ (call'.sent # <<>>) <=> due
             /\ Len(call'.sent) <= 1
             /\ (call'.sent # <<>> /\ logAge >= 0) => logAge >= rateToLogData
             /\ call'.gap = (IF due THEN logAge ELSE -1)]_vars

C9_Witness == Sent("logData") /\ call.gap = rateToLogData

(* C10 as stated: no temperature alert before tempAlertDelay and no        *)
(* PutItem before rateToLogData have elapsed since startup.                *)
C10_Deferred ==
    /\ Sent("checkTemperature") => call.uptime >= tempAlertDelay
    /\ Sent("logData") => call.uptime >= rateToLogData

(* C10 amended: on the first loop iteration, while millis() is smaller     *)
(* than the seed, currentTime - seed wraps around to at least the          *)
(* interval, so checkTemperature enters its gate and logData issues a      *)
(* PutItem at once; nothing is deferred.                                   *)
C10_FirstTickFires ==
    [][/\ (pc = "checkTemperature" /\ loops = 1 /\ clock < tempAlertDelay)
            => /\ tempDataLastAlerted = tempAlertDelay
               /\ call'.gate
               /\ (call'.sent # <<>>) <=>
                      (call'.tempC > maxTempC \/ call'.tempC < minTempC)
       /\ (pc = "logData" /\ loops = 1 /\ clock < rateToLogData)
            => /\ dataLastLogged = rateToLogData
               /\ call'.sent # <<>>]_vars

C10_Witness ==
    /\ Sent("logData") /\ call.uptime < tempAlertDelay
    /\ tempAge >= 0 /\ loops = 1

(* C11 as stated: createTimestamp returns the trimmed output of the date   *)
(* process or the placeholder, the placeholder never before 1000 ms have   *)
(* passed since entry, and no poll that comes 1000 ms or more after entry  *)
(* is followed by further waiting.                                         *)
C11_StopsAtFirstLatePoll ==
    /\ tsLate = 0
    /\ tsPc = "done" =>
          IF tsResult.placeholder
          THEN tsResult.text = Placeholder /\ tsNow - tsEntry >= second
          ELSE tsResult.text = Trim(DateOutput)

(* C12: a dispatch that fails is followed by the same updates as one that  *)
(* succeeds: after a door alert sentDoorAlert is true and                  *)
(* doorAlertLastSent is the time the call returned, after a temperature    *)
(* alert tempDataLastAlerted is, after a PutItem dataLastLogged is; one    *)
(* dispatch per function run at most (no retry) and the loop goes on to    *)
(* the next function.                                                      *)
C12_FailureIgnored ==
    [][/\ (pc = "checkDoor" /\ call'.sent # <<>>) =>
              /\ sentDoorAlert' /\ doorAlertLastSent' = clock'
              /\ pc' = "checkTemperature"
       /\ (pc = "checkTemperature" /\ call'.sent # <<>>) =>
              /\ tempDataLastAlerted' = clock'
              /\ pc' = "logData"
       /\ (pc = "logData" /\ call'.sent # <<>>) =>
              /\ dataLastLogged' = clock'
              /\ pc' = "checkDoor"
       /\ Len(call'.sent) <= 1]_vars

C12_Witness ==
    /\ Sent("logData") /\ ~call.sent[1].ok /\ dataLastLogged = clock
    /\ sentDoorAlert /\ doorAge >= 0 /\ tempAge >= 0

(* C13: a quiet tick dispatches nothing: checkDoor sends no SMS when the   *)
(* reading is closed and equal to the previous one, checkTemperature sends *)
(* none when the temperature is within [minTempC, maxTempC], thresholds    *)
(* included, and logData makes no PutItem while less than rateToLogData    *)
(* has passed since dataLastLogged.                                        *)
C13_QuietTick ==
    [][/\ (pc = "checkDoor" /\ call'.reading /\ ~call'.transition)
            => call'.sent = <<>>
       /\ (pc = "checkTemperature"
             /\ call'.tempC >= minTempC /\ call'.tempC <= maxTempC)
            => call'.sent = <<>>
       /\ (pc = "logData" /\ Sub32(clock, dataLastLogged) < rateToLogData)
            => call'.sent = <<>>]_vars

C13_Witness ==
    /\ call.fn = "logData" /\ ~call.gate /\ call.sent = <<>>
    /\ doorClosed /\ prevDoorClosed /\ ~rolled
    /\ logAge >= rateToLogData \div 2 /\ logAge < rateToLogData

(* True time the door has been open at the millis() read of the checkDoor  *)
(* run that call records: since the tick that saw it open, or since        *)
(* startup when it has never been read closed.                             *)
OpenSince(c) == IF c.openFor >= 0 THEN c.openFor ELSE c.uptime

(* C14 as stated, on finite runs: while the door is read open tick after   *)
(* tick, the tick on which it has been open for more than openTooLong with *)
(* no alert yet sends one, and once an alert has been sent every tick at   *)
(* which doorAlertDelay has passed since the previous alert sends another. *)
C14_OpenDoorAlerts ==
    [][(pc = "checkDoor" /\ ~call'.reading /\ ~call'.transition) =>
         /\ (~alertedSince /\ OpenSince(call') > openTooLong)
               => call'.sent # <<>>
         /\ (alertedSince
               /\ Age(doorAge, Sub32(call'.currentTime, clock))
                     >= doorAlertDelay)
               => call'.sent # <<>>]_vars

(* C15: every door alert comes on a tick that reads the door open and      *)
(* unchanged, after more than openTooLong of open time counted from the    *)
(* tick that saw the door open (from startup when it was never read        *)
(* closed); a tick that reads the door closed sends nothing and ends the   *)
(* count, and the tick that sees it open again starts it from zero.        *)
C15_AlertAfterOpenTooLong ==
    [][pc = "checkDoor" =>
         /\ call'.sent # <<>> =>
               /\ ~call'.reading /\ ~call'.transition
               /\ OpenSince(call') > openTooLong
         /\ call'.reading => call'.sent = <<>> /\ openAge' = -1
         /\ (~call'.reading /\ doorClosed) =>
               /\ call'.transition /\ call'.sent = <<>>
               /\ openAge' = 0 /\ openTime' = clock']_vars

C15_Witness ==
    /\ Sent("checkDoor") /\ call.openFor > openTooLong
    /\ call.openFor < openTooLong + doorAlertDelay

C17_Transition ==
    [][pc = "checkDoor" =>
         LET last == IF call.fn = "setup" THEN call.reading ELSE doorClosed
         IN  /\ doorClosed' = call'.reading
             /\ prevDoorClosed' = doorClosed'
             /\ call'.transition <=> (call'.reading # last)]_vars

C17_Witness ==
    /\ call.fn = "checkDoor" /\ call.transition /\ loops = 2
    /\ ~doorClosed /\ ~prevDoorClosed /\ openDuration = 0

(* True time since a cooldown timestamp was recorded, when the history     *)
(* timer a is running and has not reached the range of millis(): every     *)
(* cooldown is re-armed by the first tick after it has elapsed, so the     *)
(* timer gets that far only if loop() stands still for weeks.              *)
Known(a) == a >= 0 /\ a < ULongMod

(* C18 as stated: after the first tick every subtraction of a recorded     *)
(* time from currentTime gives the true time elapsed since that time was   *)
(* recorded, also when millis() has rolled over in between: line 159 the   *)
(* time the door has been open, line 167 the time since the last door      *)
(* alert, line 201 the time since line 208 last ran, line 219 the time     *)
(* since the last PutItem.                                                 *)
C18_TrueElapsed ==
    [][loops >= 1 =>
         /\ (pc = "checkDoor" /\ ~call'.reading /\ ~call'.transition) =>
               LET ct   == call'.currentTime
                   gone == Age(doorAge, Sub32(ct, clock))
               IN  /\ openDuration' = OpenSince(call')
                   /\ (OpenedTooLong(openDuration') /\ sentDoorAlert
                         /\ Known(gone))
                        => Sub32(ct, doorAlertLastSent) = gone
         /\ (pc = "checkTemperature" /\ Known(gateAge)) =>
               Sub32(clock, tempDataLastAlerted) = gateAge
         /\ (pc = "logData" /\ Known(logAge)) =>
               Sub32(clock, dataLastLogged) = logAge]_vars

(* C19 as stated: when setup returns, doorClosed and prevDoorClosed both   *)
(* hold the reading setup took of the door pin.                            *)
C19_SetupReading ==
    call.fn = "setup" =>
        /\ prevDoorClosed = call.reading
        /\ doorClosed = call.reading

====
